---- MODULE Spec2Model ----
(***************************************************************************)
(* Model of mythril/solidity/soliditycontract.py: the construction of a    *)
(* SolidityContract (source-file registry, contract selection, decoding of *)
(* the runtime and constructor source maps) and get_source_info.           *)
(*                                                                         *)
(* A Python str is a sequence of one-character strings; file contents are  *)
(* ASCII, so the UTF-8 bytes of a text are its characters.  An optional    *)
(* value (None, or a local that is not bound yet) is the empty set and a   *)
(* present value x is {x}.                                                 *)
(***************************************************************************)
EXTENDS Integers, Sequences, FiniteSets, TLC

VARIABLES status, arg_input_file, arg_name, data, solidity_files, srcmap,
          srcmap_constructor, selected, mappings, constructor_mappings,
          code, creation_code, name, info

\* status                the outcome of __init__: "new" before the call, "ok",
\*                       or the name of the exception it raised
\* arg_input_file, arg_name, data
\*                       the arguments of __init__ and the artifact that
\*                       get_solc_json returned (line 74)
\* solidity_files        self.solidity_files (lines 76-86)
\* srcmap, srcmap_constructor
\*                       the token lists of lines 91-92, 104-105, 118-119
\* selected              the key of the artifact entry whose bytecode was taken
\* mappings, constructor_mappings
\*                       self.mappings, self.constructor_mappings
\* code, creation_code, name
\*                       what line 132 hands to EVMContract.__init__
\* info                  the outcome of the last get_source_info call
vars == <<status, arg_input_file, arg_name, data, solidity_files, srcmap,
          srcmap_constructor, selected, mappings, constructor_mappings,
          code, creation_code, name, info>>

\* ------------------------------------------------------------------ bounds
MaxTokens == 3
MaxChildren == 2

\* --------------------------------------------------------- Python strings
None == {}
Some(x) == {x}
TheValue(o) == CHOOSE x \in o : TRUE

NL == "\n"

RECURSIVE IndexOf(_, _, _)
\* first position >= p of character c in s, 0 when there is none (str.find)
IndexOf(s, c, p) ==
    IF p > Len(s) THEN 0
    ELSE IF s[p] = c THEN p
    ELSE IndexOf(s, c, p + 1)

RECURSIVE Split(_, _)
\* str.split(sep) for a one-character separator: always at least one part
Split(s, sep) ==
    LET p == IndexOf(s, sep, 1)
    IN  IF p = 0 THEN <<s>>
        ELSE <<SubSeq(s, 1, p - 1)>> \o Split(SubSeq(s, p + 1, Len(s)), sep)

RECURSIVE Join(_, _)
\* sep.join(parts)
Join(parts, sep) ==
    IF Len(parts) = 0 THEN <<>>
    ELSE IF Len(parts) = 1 THEN parts[1]
    ELSE parts[1] \o <<sep>> \o Join(Tail(parts), sep)

Digits == <<"0", "1", "2", "3", "4", "5", "6", "7", "8", "9">>
IsDigit(c) == \E d \in 1..10 : Digits[d] = c
DigitVal(c) == (CHOOSE d \in 1..10 : Digits[d] = c) - 1

RECURSIVE DigitsVal(_)
DigitsVal(s) ==
    IF Len(s) = 0 THEN 0
    ELSE 10 * DigitsVal(SubSeq(s, 1, Len(s) - 1)) + DigitVal(s[Len(s)])

\* int(s) accepts an optional sign followed by decimal digits
\* (white space and underscores are not part of the modelled alphabet)
IsPyInt(s) ==
    LET body == IF Len(s) > 0 /\ s[1] \in {"-", "+"} THEN Tail(s) ELSE s
    IN  Len(body) > 0 /\ \A k \in 1..Len(body) : IsDigit(body[k])

PyInt(s) ==
    IF s[1] = "-" THEN 0 - DigitsVal(Tail(s))
    ELSE IF s[1] = "+" THEN DigitsVal(Tail(s))
    ELSE DigitsVal(s)

RECURSIVE NatToStr(_)
NatToStr(n) ==
    IF n < 10 THEN <<Digits[n + 1]>>
    ELSE NatToStr(n \div 10) \o <<Digits[(n % 10) + 1]>>

\* "{}".format(n) for an int
IntToStr(n) == IF n < 0 THEN <<"-">> \o NatToStr(0 - n) ELSE NatToStr(n)

\* "{}:{}:{}".format(offset, length, file_index)
FormatKey(offset, length, file_index) ==
    IntToStr(offset) \o <<":">> \o IntToStr(length) \o <<":">> \o IntToStr(file_index)

\* s[lo:hi] with Python's treatment of negative and out-of-range bounds
PyBound(n, b) ==
    IF b < 0 THEN (IF b + n < 0 THEN 0 ELSE b + n)
    ELSE IF b > n THEN n ELSE b

PySlice(s, lo, hi) ==
    LET a == PyBound(Len(s), lo)
        b == PyBound(Len(s), hi)
    IN  IF a >= b THEN <<>> ELSE SubSeq(s, a + 1, b)

\* s.count("\n")
CountNewlines(s) == Cardinality({p \in 1..Len(s) : s[p] = NL})

\* seq[i] of a Python list: a negative index counts from the end;
\* the result is None when the access raises IndexError
PyIndexOK(seq, i) == (0 - Len(seq)) <= i /\ i < Len(seq)
PyItem(seq, i) == IF i < 0 THEN seq[Len(seq) + i + 1] ELSE seq[i + 1]

\* code points of the characters that occur in artifact keys
Ord(c) ==
    CASE c = ":" -> 58
      [] c = "A" -> 65
      [] c = "B" -> 66
      [] c = "f" -> 102
      [] c = "g" -> 103
      [] OTHER -> 0

RECURSIVE StrLess(_, _)
\* a < b for two str
StrLess(a, b) ==
    IF Len(a) = 0 THEN Len(b) > 0
    ELSE IF Len(b) = 0 THEN FALSE
    ELSE IF Ord(a[1]) # Ord(b[1]) THEN Ord(a[1]) < Ord(b[1])
    ELSE StrLess(Tail(a), Tail(b))

RECURSIVE Sorted(_)
\* sorted(keys)
Sorted(S) ==
    IF S = {} THEN <<>>
    ELSE LET m == CHOOSE x \in S : \A y \in S \ {x} : StrLess(x, y)
         IN  <<m>> \o Sorted(S \ {m})

\* ------------------------------------------------- source-file registry
\* open(filename).read(): the text of the two source files on disk
FileF == <<"f">>
FileG == <<"g">>
FileSystem(filename) ==
    IF filename = FileF THEN <<"a", NL, "b", NL, "c">>
    ELSE <<NL, NL, "x">>

\* SolidityContract.get_full_contract_sources(ast): a child without
\* "attributes", or a contract child without "src", raises KeyError
RECURSIVE FullContractSourcesFrom(_, _, _)
FullContractSourcesFrom(children, k, source_map) ==
    IF k > Len(children) THEN [err |-> "", source_map |-> source_map]
    ELSE LET child == children[k]
         IN  IF child.attributes = None
             THEN [err |-> "KeyError", source_map |-> source_map]
             ELSE IF "contractKind" \in TheValue(child.attributes)
             THEN IF child.src = None
                  THEN [err |-> "KeyError", source_map |-> source_map]
                  ELSE FullContractSourcesFrom(children, k + 1,
                           source_map \cup {TheValue(child.src)})
             ELSE FullContractSourcesFrom(children, k + 1, source_map)

get_full_contract_sources(ast) == FullContractSourcesFrom(ast.children, 1, {})

SolidityFile(filename, text, full_contract_source) ==
    [filename |-> filename, data |-> text,
     full_contract_source |-> full_contract_source]

RECURSIVE BuildFilesFrom(_, _, _)
\* the loop over data["sourceList"] of __init__
BuildFilesFrom(d, k, files) ==
    IF k > Len(d.sourceList) THEN [err |-> "", files |-> files]
    ELSE LET filename == d.sourceList[k]
             r == get_full_contract_sources(d.sources[filename].AST)
         IN  IF r.err # "" THEN [err |-> r.err, files |-> files]
             ELSE BuildFilesFrom(d, k + 1,
                      Append(files, SolidityFile(filename, FileSystem(filename),
                                                 r.source_map)))

BuildFiles(d) == BuildFilesFrom(d, 1, <<>>)

\* ---------------------------------------------------- contract selection
NoName == <<>>
NoKey == <<>>

KeyFilename(key) == Split(key, ":")[1]
KeyName(key) == Split(key, ":")[2]

NoSelection(name_arg) ==
    [has_contract |-> FALSE, code |-> <<>>, creation_code |-> <<>>,
     srcmap |-> <<>>, srcmap_constructor |-> <<>>, name |-> name_arg,
     selected |-> NoKey]

\* the assignments of lines 102-106 / 116-120
TakeContract(sel, key, contract) ==
    [sel EXCEPT !.has_contract = TRUE,
                !.code = contract.bin_runtime,
                !.creation_code = contract.bin,
                !.srcmap = Split(contract.srcmap_runtime, ";"),
                !.srcmap_constructor = Split(contract.srcmap, ";"),
                !.selected = key]

RECURSIVE SelectNamed(_, _, _, _, _)
\* the loop taken when a name is given: the first match ends it
SelectNamed(d, keys, k, input_file, sel) ==
    IF k > Len(keys) THEN sel
    ELSE LET key == keys[k]
             contract == d.contracts[key]
         IN  IF /\ KeyFilename(key) = input_file
                /\ sel.name = KeyName(key)
                /\ Len(contract.bin_runtime) > 0
             THEN TakeContract(sel, key, contract)
             ELSE SelectNamed(d, keys, k + 1, input_file, sel)

RECURSIVE SelectLast(_, _, _, _, _)
\* the loop taken when no name is given: the loop variable is `name` itself
SelectLast(d, keys, k, input_file, sel) ==
    IF k > Len(keys) THEN sel
    ELSE LET key == keys[k]
             contract == d.contracts[key]
             named == [sel EXCEPT !.name = KeyName(key)]
         IN  IF /\ KeyFilename(key) = input_file
                /\ Len(contract.bin_runtime) > 0
             THEN SelectLast(d, keys, k + 1, input_file,
                             TakeContract(named, key, contract))
             ELSE SelectLast(d, keys, k + 1, input_file, named)

SelectContract(d, input_file, name_arg) ==
    LET keys == Sorted(DOMAIN d.contracts)
    IN  IF Len(name_arg) > 0
        THEN SelectNamed(d, keys, 1, input_file, NoSelection(name_arg))
        ELSE SelectLast(d, keys, 1, input_file, NoSelection(name_arg))

\* ------------------------------------------------------ source-map decoder
SourceMapping(solidity_file_idx, offset, length, lineno, mapping) ==
    [solidity_file_idx |-> solidity_file_idx, offset |-> offset,
     length |-> length, lineno |-> lineno, solc_mapping |-> mapping]

\* offset, length and idx are locals of _get_solc_mappings: each call
\* starts with all three unbound
InitialRunningDefaultZero == [offset |-> Some(0), length |-> Some(0), idx |-> Some(0)]
InitialRunning == [offset |-> None, length |-> None, idx |-> None]

\* if item == "": item = prev_item
EffectiveItem(item, prev_item) == IF item = <<>> THEN prev_item ELSE item

\* prev_item = item, executed at the end of every iteration
PrevItemAfterFirstOnly(prev_item, item) == IF prev_item = <<>> THEN item ELSE prev_item
PrevItemAfter(prev_item, item) == item

\* the text handed to SourceMapping: `item`, after the substitution
StoredTokenOriginal(original, item) == original
StoredToken(original, item) == item

\* len(mapping) > k and len(mapping[k]) > 0
FieldPresent(mapping, k) == Len(mapping) > k /\ Len(mapping[k + 1]) > 0

\* one of the three conditional assignments of lines 203-210
UpdateFieldDefaultZero(mapping, k, cur) ==
    IF FieldPresent(mapping, k) THEN Some(PyInt(mapping[k + 1])) ELSE Some(0)
UpdateFieldSticky(mapping, k, cur) ==
    IF FieldPresent(mapping, k) /\ cur = None THEN Some(PyInt(mapping[k + 1])) ELSE cur
UpdateField(mapping, k, cur) ==
    IF FieldPresent(mapping, k) THEN Some(PyInt(mapping[k + 1])) ELSE cur

\* int() raises ValueError on a present field that is not an integer
FieldValueError(mapping, k) == FieldPresent(mapping, k) /\ ~IsPyInt(mapping[k + 1])

\* SolidityContract._is_autogenerated_code; indexing solidity_files with
\* an index outside the list raises IndexError
IsAutogeneratedCode(files, offset, length, file_index) ==
    IF file_index = -1 THEN "True"
    ELSE IF ~PyIndexOK(files, file_index) THEN "IndexError"
    ELSE IF FormatKey(offset, length, file_index)
                \in PyItem(files, file_index).full_contract_source THEN "True"
    ELSE "False"

\* data.encode("utf-8")[0:offset].count("\n") + 1
LineNumber(files, offset, idx) ==
    CountNewlines(PySlice(PyItem(files, idx).data, 0, offset)) + 1

\* one iteration of the loop of _get_solc_mappings
DecodeStep(files, st, original) ==
    LET item == EffectiveItem(original, st.prev_item)
        mapping == Split(item, ":")
        run == [offset |-> UpdateField(mapping, 0, st.run.offset),
                length |-> UpdateField(mapping, 1, st.run.length),
                idx |-> UpdateField(mapping, 2, st.run.idx)]
        offset == TheValue(run.offset)
        length == TheValue(run.length)
        idx == TheValue(run.idx)
        auto == IsAutogeneratedCode(files, offset, length, idx)
        lineno == IF auto = "True" THEN None
                  ELSE Some(LineNumber(files, offset, idx))
    IN  IF \E k \in 0..2 : FieldValueError(mapping, k)
        THEN [st EXCEPT !.err = "ValueError"]
        ELSE IF None \in {run.offset, run.length, run.idx}
        THEN [st EXCEPT !.err = "UnboundLocalError"]
        ELSE IF auto = "IndexError"
        THEN [st EXCEPT !.err = "IndexError"]
        ELSE [entries |-> Append(st.entries,
                  SourceMapping(idx, offset, length, lineno,
                                StoredToken(original, item))),
              prev_item |-> PrevItemAfter(st.prev_item, item),
              run |-> run,
              err |-> ""]

RECURSIVE DecodeLoop(_, _, _, _)
DecodeLoop(files, tokens, k, st) ==
    IF k > Len(tokens) \/ st.err # "" THEN st
    ELSE DecodeLoop(files, tokens, k + 1, DecodeStep(files, st, tokens[k]))

\* _get_solc_mappings(srcmap, constructor) on an object whose two entry
\* lists are self.mappings and self.constructor_mappings
GetSolcMappingsAlwaysRuntime(self, files, tokens, constructor) ==
    LET r == DecodeLoop(files, tokens, 1,
                 [entries |-> self.mappings, prev_item |-> <<>>,
                  run |-> InitialRunning, err |-> ""])
    IN  [mappings |-> r.entries,
         constructor_mappings |-> self.constructor_mappings, err |-> r.err]
GetSolcMappings(self, files, tokens, constructor) ==
    LET target == IF constructor THEN self.constructor_mappings ELSE self.mappings
        r == DecodeLoop(files, tokens, 1,
                 [entries |-> target, prev_item |-> <<>>,
                  run |-> InitialRunning, err |-> ""])
    IN  IF constructor
        THEN [mappings |-> self.mappings, constructor_mappings |-> r.entries,
              err |-> r.err]
        ELSE [mappings |-> r.entries,
              constructor_mappings |-> self.constructor_mappings, err |-> r.err]

\* ----------------------------------------------------------- disassembly
\* The instruction list of a bytecode: one single-byte instruction per
\* two hex characters, at addresses 0, 1, 2, ...
InstructionList(bytecode) == [k \in 1..(Len(bytecode) \div 2) |-> k - 1]

\* helper.get_instruction_index: the index of the instruction that starts
\* at the address, None when there is none
GetInstructionIndex(instruction_list, address) ==
    {k - 1 : k \in {j \in 1..Len(instruction_list) : instruction_list[j] = address}}

\* ------------------------------------------------------- compiler artifact
TokFull == <<"0", ":", "5", ":", "0">>
TokNoLength == <<"2", ":", ":", "1">>
TokInternal == <<"-", "1", ":", "-", "1", ":", "-", "1">>
TokFileOnly == <<":", ":", "0">>
TokJump == <<"4", ":", "1", ":", "0", ":", "i">>
TokLengthOnly == <<":", "2">>
TokEmpty == <<>>
TokBadInt == <<"3", ":", "x">>
TokWholeG == <<"0", ":", "3", ":", "1">>

Tokens == {TokFull, TokNoLength, TokInternal, TokFileOnly, TokJump,
           TokLengthOnly, TokEmpty, TokBadInt}

\* the raw maps of one to MaxTokens tokens
RawMaps ==
    {Join(ts, ";") : ts \in UNION {[1..n -> Tokens] : n \in 1..MaxTokens}}

RECURSIVE Bytecode(_, _)
\* n instructions of opcode op
Bytecode(op, n) == IF n = 0 THEN <<>> ELSE op \o Bytecode(op, n - 1)

OpStop == <<"0", "0">>
OpInvalid == <<"f", "e">>
NumTokens(raw) == Len(Split(raw, ";"))

Contract(runtime_map, constructor_map) ==
    [bin_runtime |-> Bytecode(OpStop, NumTokens(runtime_map)),
     bin |-> Bytecode(OpInvalid, NumTokens(constructor_map)),
     srcmap_runtime |-> runtime_map,
     srcmap |-> constructor_map]

ChildPragma == [attributes |-> Some({"literals"}), src |-> Some(<<"0", ":", "1", ":", "0">>)]
ChildContract == [attributes |-> Some({"contractKind", "name"}), src |-> Some(TokFull)]
ChildNoAttributes == [attributes |-> None, src |-> Some(<<"2", ":", "1", ":", "0">>)]
ChildContractNoSrc == [attributes |-> Some({"contractKind", "name"}), src |-> None]
ChildPragmaNoSrc == [attributes |-> Some({"literals"}), src |-> None]
ChildContractG == [attributes |-> Some({"contractKind", "name"}), src |-> Some(<<"0", ":", "3", ":", "1">>)]

Children == {ChildPragma, ChildContract, ChildNoAttributes, ChildContractNoSrc,
             ChildPragmaNoSrc}

Ast(children) == [AST |-> [children |-> children]]

StandardSources ==
    [filename \in {FileF, FileG} |->
        IF filename = FileF THEN Ast(<<ChildPragma, ChildContract>>)
        ELSE Ast(<<ChildContractG>>)]

KeyFA == <<"f", ":", "A">>
KeyFB == <<"f", ":", "B">>
KeyGA == <<"g", ":", "A">>
NameA == <<"A">>
NameB == <<"B">>

MapRuntimeStd == Join(<<TokFull, TokNoLength>>, ";")
MapConstructorStd == TokJump

Artifact(sources, contracts) ==
    [sourceList |-> <<FileF, FileG>>, sources |-> sources, contracts |-> contracts]

\* one contract f:A; either map ranges over the raw maps
DecodeInputs ==
    {[input_file |-> FileF, name |-> NameA,
      data |-> Artifact(StandardSources, [key \in {KeyFA} |-> Contract(m, MapConstructorStd)])]
        : m \in RawMaps}
    \cup
    {[input_file |-> FileF, name |-> NameA,
      data |-> Artifact(StandardSources, [key \in {KeyFA} |-> Contract(MapRuntimeStd, m)])]
        : m \in RawMaps}

\* the artifact entry of a key, with or without runtime bytecode
KeyContract(key, deployed) ==
    LET c == IF key = KeyFA THEN Contract(TokFull, TokJump)
             ELSE IF key = KeyFB THEN Contract(Join(<<TokJump, TokEmpty>>, ";"), TokFull)
             ELSE Contract(Join(<<TokWholeG, TokEmpty, TokEmpty>>, ";"),
                           Join(<<TokFull, TokFileOnly>>, ";"))
    IN  IF deployed THEN c ELSE [c EXCEPT !.bin_runtime = <<>>]

\* every set of keys, each entry with or without runtime bytecode
SelectInputs ==
    {[input_file |-> f, name |-> n,
      data |-> Artifact(StandardSources,
                  [key \in keys |-> KeyContract(key, key \in deployed)])]
        : f \in {FileF, FileG}, n \in {NoName, NameA, NameB},
          keys \in SUBSET {KeyFA, KeyFB, KeyGA},
          deployed \in SUBSET {KeyFA, KeyFB, KeyGA}}

\* the declaration list of file f ranges over the lists of children
AstInputs ==
    {[input_file |-> FileF, name |-> n,
      data |-> Artifact([filename \in {FileF, FileG} |->
                            IF filename = FileF THEN Ast(cs) ELSE Ast(<<ChildContractG>>)],
                        [key \in {KeyFA} |-> Contract(MapRuntimeStd, MapConstructorStd)])]
        : n \in {NoName, NameA},
          cs \in UNION {[1..n -> Children] : n \in 0..MaxChildren}}

Inputs == DecodeInputs \cup SelectInputs \cup AstInputs

MaxAddress == MaxTokens

\* ----------------------------------------------------------------- actions
NoInfo ==
    [kind |-> "none", address |-> 0, constructor |-> FALSE, filename |-> <<>>,
     lineno |-> None, code |-> <<>>, solc_mapping |-> <<>>]

EmptyArtifact == Artifact(StandardSources, [key \in {} |-> Contract(<<>>, <<>>)])

Init ==
    /\ status = "new"
    /\ arg_input_file = <<>>
    /\ arg_name = NoName
    /\ data = EmptyArtifact
    /\ solidity_files = <<>>
    /\ srcmap = <<>>
    /\ srcmap_constructor = <<>>
    /\ selected = NoKey
    /\ mappings = <<>>
    /\ constructor_mappings = <<>>
    /\ code = <<>>
    /\ creation_code = <<>>
    /\ name = NoName
    /\ info = NoInfo

\* SolidityContract.__init__(input_file, name) on the artifact d that
\* get_solc_json returns.  When it raises, the fields keep what was
\* assigned before the exception.
Construct(input_file, name_arg, d) ==
    LET reg == BuildFiles(d)
        sel == SelectContract(d, input_file, name_arg)
        empty == [mappings |-> <<>>, constructor_mappings |-> <<>>]
        rt == GetSolcMappings(empty, reg.files, sel.srcmap, FALSE)
        ct == GetSolcMappings(rt, reg.files, sel.srcmap_constructor, TRUE)
        found == reg.err = "" /\ sel.has_contract
        decoded == found /\ rt.err = "" /\ ct.err = ""
    IN  /\ status = "new"
        /\ arg_input_file' = input_file
        /\ arg_name' = name_arg
        /\ data' = d
        /\ solidity_files' = reg.files
        /\ srcmap' = IF reg.err = "" THEN sel.srcmap ELSE <<>>
        /\ srcmap_constructor' = IF reg.err = "" THEN sel.srcmap_constructor ELSE <<>>
        /\ selected' = IF reg.err = "" THEN sel.selected ELSE NoKey
        /\ mappings' = IF found THEN rt.mappings ELSE <<>>
        /\ constructor_mappings' =
               IF found /\ rt.err = "" THEN ct.constructor_mappings ELSE <<>>
        /\ code' = IF decoded THEN sel.code ELSE <<>>
        /\ creation_code' = IF decoded THEN sel.creation_code ELSE <<>>
        /\ name' = IF decoded THEN sel.name ELSE NoName
        /\ status' = IF reg.err # "" THEN reg.err
                     ELSE IF ~sel.has_contract THEN "NoContractFoundError"
                     ELSE IF rt.err # "" THEN rt.err
                     ELSE IF ct.err # "" THEN ct.err
                     ELSE "ok"
        /\ info' = NoInfo

\* SolidityContract.get_source_info(address, constructor)
GetSourceInfo(address, constructor) ==
    LET bytecode == IF constructor THEN creation_code ELSE code
        entries == IF constructor THEN constructor_mappings ELSE mappings
        index == GetInstructionIndex(InstructionList(bytecode), address)
        entry == entries[TheValue(index) + 1]
        solidity_file == PyItem(solidity_files, entry.solidity_file_idx)
        failed(kind) == [NoInfo EXCEPT !.kind = kind, !.address = address,
                                       !.constructor = constructor]
    IN  /\ status = "ok"
        /\ info' =
             IF index = None THEN failed("InstructionNotFoundError")
             ELSE IF TheValue(index) >= Len(entries) THEN failed("IndexError")
             ELSE IF ~PyIndexOK(solidity_files, entry.solidity_file_idx)
             THEN failed("IndexError")
             ELSE [kind |-> "SourceCodeInfo", address |-> address,
                   constructor |-> constructor,
                   filename |-> solidity_file.filename,
                   lineno |-> entry.lineno,
                   code |-> PySlice(solidity_file.data, entry.offset,
                                    entry.offset + entry.length),
                   solc_mapping |-> entry.solc_mapping]
        /\ UNCHANGED <<status, arg_input_file, arg_name, data, solidity_files,
                       srcmap, srcmap_constructor, selected, mappings,
                       constructor_mappings, code, creation_code, name>>

Next ==
    \/ \E i \in Inputs : Construct(i.input_file, i.name, i.data)
    \/ \E address \in 0..MaxAddress, constructor \in BOOLEAN :
           GetSourceInfo(address, constructor)

Spec == Init /\ [][Next]_vars

\* ------------------------------------------------------------ properties
\* the two decoded sequences, each with the tokens it was decoded from
Decoded ==
    {[entries |-> mappings, tokens |-> srcmap],
     [entries |-> constructor_mappings, tokens |-> srcmap_constructor]}

\* the k-th colon-separated field of a token is present and non-empty
HasField(token, k) ==
    LET fields == Split(token, ":")
    IN  Len(fields) >= k /\ fields[k] # <<>>
FieldInt(token, k) == PyInt(Split(token, ":")[k])
EntryField(entry, k) ==
    IF k = 1 THEN entry.offset
    ELSE IF k = 2 THEN entry.length
    ELSE entry.solidity_file_idx
Omits(token) == \E k \in 1..3 : ~HasField(token, k)
SameTriple(a, b) == \A k \in 1..3 : EntryField(a, k) = EntryField(b, k)

\* C1: for every token at position i > 0, each of the first three fields
\* that is present and non-empty sets the value of entry i to that integer,
\* and each field that is absent or empty leaves entry i's value equal to
\* the value of entry i-1.
C1_FieldInheritance ==
    \A d \in Decoded : \A i \in 2..Len(d.entries) : \A k \in 1..3 :
        IF HasField(d.tokens[i], k)
        THEN EntryField(d.entries[i], k) = FieldInt(d.tokens[i], k)
        ELSE EntryField(d.entries[i], k) = EntryField(d.entries[i - 1], k)

\* "10:5:0;15::1"-shaped map: the second entry overrides offset and file
\* index and inherits the length
C1_Witness ==
    /\ status = "ok"
    /\ Len(srcmap) >= 2 /\ srcmap[1] = TokFull /\ srcmap[2] = TokNoLength
    /\ mappings[2].offset = 2 /\ mappings[2].length = 5
    /\ mappings[2].solidity_file_idx = 1

\* C2: the entry of an empty token at position i > 0 has the offset, length
\* and file index of entry i-1.
C2_EmptyTokenInheritance ==
    \A d \in Decoded : \A i \in 2..Len(d.entries) :
        d.tokens[i] = <<>> => SameTriple(d.entries[i], d.entries[i - 1])

\* an empty token after a token that itself omitted a field
C2_Witness ==
    /\ status = "ok"
    /\ \E i \in 3..Len(mappings) :
          /\ srcmap[i] = <<>>
          /\ srcmap[i - 1] = TokNoLength
          /\ mappings[i].length = mappings[i - 2].length
          /\ mappings[i].offset = 2

\* the number of semicolon-separated tokens of a raw map
TokenCount(raw) == Cardinality({p \in 1..Len(raw) : raw[p] = ";"}) + 1

\* C4: after a construction that completes, each of the two sequences has
\* exactly as many entries as its own raw map has tokens, and entry i
\* carries the values that token i states; neither decode adds to the
\* sequence of the other.
C4_OneEntryPerToken ==
    status = "ok" =>
        /\ Len(mappings) = TokenCount(data.contracts[selected].srcmap_runtime)
        /\ Len(constructor_mappings) = TokenCount(data.contracts[selected].srcmap)
        /\ \A d \in Decoded : \A i \in 1..Len(d.entries) : \A k \in 1..3 :
              HasField(d.tokens[i], k) =>
                  EntryField(d.entries[i], k) = FieldInt(d.tokens[i], k)

C4_Witness ==
    /\ status = "ok"
    /\ Len(mappings) = 3
    /\ Len(constructor_mappings) = 1
    /\ mappings[3].offset = 4
    /\ constructor_mappings[1].offset = 4

\* the nearest non-empty token at or before position i
NearestNonEmpty(tokens, i) ==
    LET S == {j \in 1..i : tokens[j] # <<>>}
    IN  IF S = {} THEN <<>>
        ELSE tokens[CHOOSE j \in S : \A h \in S : h <= j]

DecodeErrors == {"UnboundLocalError", "ValueError"}
C7_FirstTokenOmission ==
    /\ (Len(srcmap) > 0 /\ Omits(srcmap[1])) =>
          /\ status \in DecodeErrors
          /\ mappings = <<>>
          /\ constructor_mappings = <<>>
    /\ (Len(srcmap_constructor) > 0 /\ Omits(srcmap_constructor[1])) =>
          /\ status \in DecodeErrors
          /\ constructor_mappings = <<>>

\* the runtime map decoded to two entries, then the constructor map
\* started with a token that gives a length only
C7_Witness ==
    /\ status = "UnboundLocalError"
    /\ Len(mappings) = 2
    /\ Len(srcmap_constructor) > 0
    /\ srcmap_constructor[1] = TokLengthOnly
    /\ constructor_mappings = <<>>

\* C8 (as stated): in a raw map with no empty token, the offset, length
\* and file index of entry i are those that token i alone states.
C8_NoEmptyTokenIndependent ==
    \A d \in Decoded :
        (\A j \in 1..Len(d.tokens) : d.tokens[j] # <<>>) =>
            \A i \in 1..Len(d.entries) : \A k \in 1..3 :
                /\ HasField(d.tokens[i], k)
                /\ EntryField(d.entries[i], k) = FieldInt(d.tokens[i], k)

\* C8 (amended): the entry of a token whose offset, length and file index
\* are all present and non-empty is determined by that token alone,
\* whatever the tokens before it are.
C8_FullTokenIndependent ==
    \A d \in Decoded : \A i \in 1..Len(d.entries) :
        ~Omits(d.tokens[i]) =>
            \A k \in 1..3 : EntryField(d.entries[i], k) = FieldInt(d.tokens[i], k)

C8_Witness ==
    /\ status = "ok"
    /\ \E i \in 2..Len(mappings) :
          /\ srcmap[i] = TokJump
          /\ srcmap[i - 1] = TokNoLength
          /\ mappings[i].length = 1
          /\ mappings[i - 1].length = 5

\* the number of newlines in bytes [0, offset) of a text
NewlinesBefore(text, offset) ==
    Cardinality({p \in 1..Len(text) : p <= offset /\ text[p] = NL})

\* C3: an entry has no line number iff its file index is -1 or the string
\* "offset:length:file_index" is in the autogenerated ranges of its file;
\* otherwise its line number is 1 plus the number of newlines in bytes
\* [0, offset) of the file.
C3_LineNumber ==
    \A d \in Decoded : \A i \in 1..Len(d.entries) :
        LET e == d.entries[i]
            f == solidity_files[e.solidity_file_idx + 1]
            auto == \/ e.solidity_file_idx = -1
                    \/ FormatKey(e.offset, e.length, e.solidity_file_idx)
                           \in f.full_contract_source
        IN  e.solidity_file_idx \in {-1} \cup (0..(Len(solidity_files) - 1)) =>
                IF auto THEN e.lineno = None
                ELSE e.lineno = Some(NewlinesBefore(f.data, e.offset) + 1)

\* C6: get_source_info on an instruction whose entry has file index -1
\* fails; it returns no location taken from a file of the registry.
C6_NoSourceForInternalEntry ==
    info.kind = "SourceCodeInfo" =>
        LET entries == IF info.constructor THEN constructor_mappings ELSE mappings
        IN  entries[info.address + 1].solidity_file_idx # -1

WellFormed(child) == child.attributes # None /\ child.src # None

\* C9: the extraction of the autogenerated ranges never fails: a malformed
\* declaration is skipped, and the ranges of a file are the src strings of
\* its well-formed declarations that carry the contract-kind marker.
C9_MalformedDeclarationSkipped ==
    status # "new" =>
        /\ status # "KeyError"
        /\ Len(solidity_files) = Len(data.sourceList)
        /\ \A i \in 1..Len(solidity_files) :
              LET children == data.sources[data.sourceList[i]].AST.children
              IN  solidity_files[i].full_contract_source =
                      {TheValue(children[j].src) :
                          j \in {h \in 1..Len(children) :
                                    /\ WellFormed(children[h])
                                    /\ "contractKind" \in TheValue(children[h].attributes)}}

\* the artifact entries that qualify for the requested file and name
Qualifying ==
    {key \in DOMAIN data.contracts :
        /\ KeyFilename(key) = arg_input_file
        /\ Len(data.contracts[key].bin_runtime) > 0
        /\ (arg_name # NoName => KeyName(key) = arg_name)}

\* C10: the bytecodes, the two source maps and the recorded name all come
\* from one artifact entry, which qualifies: the first one in sorted key
\* order when a name is given, the last one otherwise; when no entry
\* qualifies the construction fails with NoContractFoundError.
C10_ConsistentSelection ==
    (status # "new" /\ status # "KeyError") =>
        IF Qualifying = {} THEN status = "NoContractFoundError"
        ELSE LET keys == Sorted(Qualifying)
                 key == IF arg_name # NoName THEN keys[1] ELSE keys[Len(keys)]
                 contract == data.contracts[key]
             IN  /\ status # "NoContractFoundError"
                 /\ srcmap = Split(contract.srcmap_runtime, ";")
                 /\ srcmap_constructor = Split(contract.srcmap, ";")
                 /\ status = "ok" =>
                       /\ code = contract.bin_runtime
                       /\ creation_code = contract.bin
                       /\ name = KeyName(key)

====
